---- MODULE Spec2Model ----
(***************************************************************************)
(* Floorsheet pipeline: Raw Store (floorsheet_downloader.py), Date Rollup  *)
(* (floorsheet_date_summarizer.py) and Global Rollup                       *)
(* (floorsheet_summarizer.py).  Each stage reads a parquet file in full,   *)
(* transforms it and writes a parquet file in full.                        *)
(*                                                                         *)
(* A parquet file is modelled by a status ("absent", "ok", "corrupt") and  *)
(* the sequence of its rows (pandas keeps row order).  Dates are ISO       *)
(* strings "YYYY-MM-DD" in the code and are compared as strings; they are  *)
(* modelled as <<year, month, day>> compared field by field, which is what *)
(* the string comparison of zero-padded fixed-width fields does.  Amounts  *)
(* are integers (minor units); a quotient is an exact fraction             *)
(* <<numerator, denominator>> in lowest terms.                             *)
(*                                                                         *)
(* pq.write_table writes the destination file in place.  A write either    *)
(* succeeds, or raises before it touched the file ("refused"), or raises   *)
(* after it truncated the file and wrote a part of it ("partial"); a file  *)
(* left partial is unreadable ("corrupt").                                 *)
(***************************************************************************)
EXTENDS Integers, Sequences, FiniteSets, TLC

VARIABLES
    rawStatus,     \* status of the Raw Store file
    rawTable,      \* rows of the Raw Store file
    dateStatus,    \* status of the Date Rollup file
    dateTable,     \* rows of the Date Rollup file
    globalStatus,  \* status of the Global Rollup file
    globalTable,   \* rows of the Global Rollup file
    op,            \* the stage that ran last: "none", "raw", "date", "global"
    ok,            \* what that run returned
    cut,           \* the cutoff_date of that run
    batch,         \* the batch handed to the last Raw Store run
    pre,           \* the three files as they were before that run
    summ,          \* the date_summaries the last Date Rollup run computed
    prev,          \* op, ok and cut of the run before the last one
    runs,          \* number of runs so far
    wr,            \* outcomes of the writes the last run attempted, in order
    raised,        \* dates whose fold raised in the last Date Rollup run
    fin,           \* the input of a function studied on its own
    fout           \* what it returned, one entry per application or step

vars == <<rawStatus, rawTable, dateStatus, dateTable, globalStatus, globalTable,
          op, ok, cut, batch, pre, summ, prev, runs, wr, raised, fin, fout>>

(***************************************************************************)
(* Bounds of the model.                                                    *)
(***************************************************************************)
MaxDate == 2
MaxTxn == 2
MaxBatch == 2
MaxRuns == 4
MaxLen == 3
MaxFold == 2
MaxFoldRuns == 2
MaxPerm == 3
MaxGlobalRuns == 2
MaxFaultRuns == 3
MaxPages == 3

(***************************************************************************)
(* Value domains.                                                          *)
(***************************************************************************)
DateList == << <<2023, 12, 31>>, <<2024, 1, 2>>, <<2024, 1, 10>>,
               <<2024, 2, 1>>, <<2025, 1, 1>> >>

Dates == {DateList[i] : i \in 1..MaxDate}

Cutoffs == Dates

TxnNos == 1..MaxTxn

\* Every string the model uses as an identifier, in Python's string order.
StrOrder == <<"B1", "B2", "N1", "N1b", "N2", "X", "Y">>

StrRank(s) == CHOOSE i \in 1..Len(StrOrder) : StrOrder[i] = s

StrLess(a, b) == StrRank(a) < StrRank(b)

Range(s) == {s[i] : i \in DOMAIN s}

SeqToBag(s) == [x \in Range(s) |-> Cardinality({i \in DOMAIN s : s[i] = x})]

(***************************************************************************)
(* Dates and the retention filter.                                         *)
(***************************************************************************)
DateGEStrict(a, b) ==
    \/ a[1] > b[1]
    \/ a[1] = b[1] /\ a[2] > b[2]
    \/ a[1] = b[1] /\ a[2] = b[2] /\ a[3] > b[3]

\* a > b on "YYYY-MM-DD" strings
DateGT(a, b) ==
    \/ a[1] > b[1]
    \/ a[1] = b[1] /\ a[2] > b[2]
    \/ a[1] = b[1] /\ a[2] = b[2] /\ a[3] > b[3]

\* a >= b on "YYYY-MM-DD" strings
DateGE(a, b) ==
    \/ a[1] > b[1]
    \/ a[1] = b[1] /\ a[2] > b[2]
    \/ a[1] = b[1] /\ a[2] = b[2] /\ a[3] >= b[3]

\* df[df['date'] >= cutoff_date]
RetentionFilter(tbl, cutoff) ==
    SelectSeq(tbl, LAMBDA r : DateGE(r.date, cutoff))

(***************************************************************************)
(* Raw Store: floorsheet_downloader.py                                     *)
(***************************************************************************)
Brokers == {"B1", "B2"}

\* The name the Transaction Source usually shows for a broker.
NameOf(b) == IF b = "B1" THEN "N1" ELSE "N2"

\* (buyer, seller, quantity, amount) of the trades the Transaction Source of
\* the pipeline yields
Trades == {<<"B1", "B2", 100, 10000>>, <<"B2", "B1", 40, 4200>>}

\* _extract_transactions: one record per table row of the page.  symbol_full
\* and rate are carried along and never read by any stage; they are left out.
Transaction(d, t, s, b, bn, sl, sn, q, a) ==
    [date |-> d, transaction_no |-> t, symbol |-> s,
     buyer_id |-> b, buyer_name |-> bn, seller_id |-> sl, seller_name |-> sn,
     quantity |-> q, amount |-> a]

SourceRecords(d) ==
    {Transaction(d, t, "X", p[1], NameOf(p[1]), p[2], NameOf(p[2]), p[3], p[4]) :
        t \in TxnNos, p \in Trades}

\* download_floorsheet: the records of one trading date, transaction_no
\* unique within the date; the empty batch when the first page fails.
Batches ==
    {<<>>} \cup
    UNION {{bt \in [1..n -> SourceRecords(d)] :
                \A i, j \in 1..n : i # j => bt[i].transaction_no # bt[j].transaction_no} :
           n \in 1..MaxBatch, d \in Dates}

File(status, table) == [status |-> status, table |-> table]

WriteOutcomes == {"ok", "refused", "partial"}

\* the outcomes of the first and of the second write of a run
WritePlans == WriteOutcomes \X WriteOutcomes

AllWritesOk == <<"ok", "ok">>

\* pq.write_table(table, output_file): the file afterwards
write_table(file, table, outcome) ==
    IF outcome = "ok" THEN File("ok", table)
    ELSE IF outcome = "partial" THEN File("corrupt", <<>>)
    ELSE file

\* df['key'] = df['date'] + '-' + df['transaction_no']: the date has a fixed
\* width, so the string is determined by, and determines, the two fields.
KeyDateOnly(r) == <<r.date, "-">>

Key(r) == <<r.date, "-", r.transaction_no>>

Keys(tbl) == {Key(tbl[i]) : i \in DOMAIN tbl}

\* retention that keeps only the rows dated after the cutoff
raw_existing_newer_only(existing, cutoff) ==
    SelectSeq(existing, LAMBDA r : DateGT(r.date, cutoff))

\* lines 261-267: retention on the existing raw table
raw_existing_retention(existing, cutoff) == RetentionFilter(existing, cutoff)

\* every record of the batch taken as new
new_records_all(df, existing) == df

\* line 276: new_records = df[~df['key'].isin(existing_df['key'])]
new_records_of(df, existing) ==
    SelectSeq(df, LAMBDA r : Key(r) \notin Keys(existing))

\* lines 322-338: no existing file, or the append block raised.  table is
\* what the variable of that name holds on arrival, tried the writes already
\* attempted.  A batch has one date, so the filter keeps all of df or
\* nothing, and the 'key' column line 272 may have added to df is never
\* written.
save_new_only(df, table, file, cutoff, outcome, tried) ==
    LET kept == RetentionFilter(df, cutoff)
        removed_count == Len(df) - Len(kept)
    IN  IF removed_count > 0 /\ kept = <<>>
        THEN [ok |-> FALSE, file |-> file, writes |-> tried]
        ELSE [ok |-> outcome = "ok",
              file |-> write_table(file, IF removed_count > 0 THEN kept ELSE table,
                                   outcome),
              writes |-> Append(tried, outcome)]

\* the merge as the rule "new replaces old on key equality" would have it
save_merge_new_wins(df, file, cutoff, w) ==
    LET existing_df == raw_existing_retention(file.table, cutoff)
        kept == SelectSeq(existing_df, LAMBDA r : Key(r) \notin Keys(df))
    IN  [ok |-> TRUE, file |-> File("ok", kept \o df), writes |-> <<"ok">>]

\* lines 255-320: append mode with a readable existing file.  A write that
\* raises is caught at line 318 and the run goes on at line 322.
save_merge(df, file, cutoff, w) ==
    LET existing_df == raw_existing_retention(file.table, cutoff)
        removed_count == Len(file.table) - Len(existing_df)
        new_records == new_records_of(df, existing_df)
        table == IF Len(new_records) > 0 THEN existing_df \o new_records
                 ELSE existing_df
    IN  IF Len(new_records) = 0 /\ removed_count = 0
        THEN [ok |-> TRUE, file |-> file, writes |-> <<>>]
        ELSE IF w[1] = "ok"
             THEN [ok |-> TRUE, file |-> File("ok", table), writes |-> <<"ok">>]
             ELSE save_new_only(df, table, write_table(file, table, w[1]),
                                cutoff, w[2], <<w[1]>>)

\* save_to_parquet(df, output_file, append=True) with cutoff_date = cutoff;
\* w are the outcomes of its writes
save_to_parquet(df, file, cutoff, w) ==
    IF df = <<>>
    THEN [ok |-> FALSE, file |-> file, writes |-> <<>>]
    ELSE IF file.status = "ok"
         THEN save_merge(df, file, cutoff, w)
         ELSE save_new_only(df, df, file, cutoff, w[1], <<>>)

(***************************************************************************)
(* Derived metrics, shared by floorsheet_date_summarizer.py lines 143-164  *)
(* and floorsheet_summarizer.py lines 98-119.                              *)
(***************************************************************************)
Abs(n) == IF n < 0 THEN -n ELSE n

RECURSIVE GCD(_, _)
GCD(a, b) == IF b = 0 THEN a ELSE GCD(b, a % b)

Zero == <<0, 1>>

\* what an unguarded division by zero would leave in the column
DivFault == <<0, 0>>

\* n / d as a fraction in lowest terms with a positive denominator
Div(n, d) ==
    IF d = 0 THEN DivFault
    ELSE LET g == GCD(Abs(n), Abs(d))
             sgn == IF d < 0 THEN -1 ELSE 1
         IN  <<(sgn * n) \div g, (sgn * d) \div g>>

avg_buy_price_unguarded(x) == Div(x.buy_amount, x.buy_quantity)

\* x['buy_amount'] / x['buy_quantity'] if x['buy_quantity'] > 0 else 0
avg_buy_price(x) ==
    IF x.buy_quantity > 0 THEN Div(x.buy_amount, x.buy_quantity) ELSE Zero

\* the sell average guarded by the buy column
avg_sell_price_buy_guard(x) ==
    IF x.buy_quantity > 0 THEN Div(x.sell_amount, x.sell_quantity) ELSE Zero

\* x['sell_amount'] / x['sell_quantity'] if x['sell_quantity'] > 0 else 0
avg_sell_price(x) ==
    IF x.sell_quantity > 0 THEN Div(x.sell_amount, x.sell_quantity) ELSE Zero

\* df['buy_quantity'] - df['sell_quantity']
net_quantity(x) == x.buy_quantity - x.sell_quantity

\* the holding price computed for a net short position as well
avg_holding_price_any_net(x) ==
    IF net_quantity(x) # 0
    THEN Div(x.buy_amount - x.sell_amount, net_quantity(x)) ELSE Zero

\* (x['buy_amount'] - x['sell_amount']) / x['net_quantity'] if x['net_quantity'] > 0 else 0
avg_holding_price(x) ==
    IF net_quantity(x) > 0
    THEN Div(x.buy_amount - x.sell_amount, net_quantity(x)) ELSE Zero

\* the four derived columns added to an accumulator row
Derived(x) ==
    [avg_buy_price |-> avg_buy_price(x), avg_sell_price |-> avg_sell_price(x),
     net_quantity |-> net_quantity(x), avg_holding_price |-> avg_holding_price(x)]

RECURSIVE SumSeq(_)
SumSeq(s) == IF s = <<>> THEN 0 ELSE Head(s) + SumSeq(Tail(s))

\* the distinct values of f over a table, in order of first appearance
RECURSIVE Unique(_)
Unique(s) ==
    IF s = <<>> THEN <<>>
    ELSE LET front == Unique(SubSeq(s, 1, Len(s) - 1))
             last == s[Len(s)]
         IN  IF last \in Range(front) THEN front ELSE Append(front, last)

(***************************************************************************)
(* Date Rollup: floorsheet_date_summarizer.py                              *)
(***************************************************************************)
\* order of the group keys (id, name, symbol) in a groupby result
GroupLess(a, b) ==
    \/ StrLess(a[1], b[1])
    \/ a[1] = b[1] /\ StrLess(a[2], b[2])
    \/ a[1] = b[1] /\ a[2] = b[2] /\ StrLess(a[3], b[3])

RECURSIVE SortGroups(_)
SortGroups(S) ==
    IF S = {} THEN <<>>
    ELSE LET m == CHOOSE x \in S : \A y \in S \ {x} : GroupLess(x, y)
         IN  <<m>> \o SortGroups(S \ {m})

\* the buy groups in order of first appearance instead of key order
buy_data_unsorted(date_data) ==
    LET groups == Unique([i \in DOMAIN date_data |->
                            <<date_data[i].buyer_id, date_data[i].buyer_name,
                              date_data[i].symbol>>])
        rowsOf(g) == SelectSeq(date_data, LAMBDA r :
                        <<r.buyer_id, r.buyer_name, r.symbol>> = g)
    IN  [k \in DOMAIN groups |->
            [id |-> groups[k][1], name |-> groups[k][2], symbol |-> groups[k][3],
             quantity |-> SumSeq([i \in DOMAIN rowsOf(groups[k]) |->
                                    rowsOf(groups[k])[i].quantity]),
             amount |-> SumSeq([i \in DOMAIN rowsOf(groups[k]) |->
                                    rowsOf(groups[k])[i].amount])]]

\* lines 91-94: date_data.groupby(['buyer_id', 'buyer_name', 'symbol']).agg(sum)
buy_data(date_data) ==
    LET groups == SortGroups({<<date_data[i].buyer_id, date_data[i].buyer_name,
                                date_data[i].symbol>> : i \in DOMAIN date_data})
        rowsOf(g) == SelectSeq(date_data, LAMBDA r :
                        <<r.buyer_id, r.buyer_name, r.symbol>> = g)
    IN  [k \in DOMAIN groups |->
            [id |-> groups[k][1], name |-> groups[k][2], symbol |-> groups[k][3],
             quantity |-> SumSeq([i \in DOMAIN rowsOf(groups[k]) |->
                                    rowsOf(groups[k])[i].quantity]),
             amount |-> SumSeq([i \in DOMAIN rowsOf(groups[k]) |->
                                    rowsOf(groups[k])[i].amount])]]

\* the sell groups aggregated with 'first' instead of 'sum'
sell_data_first(date_data) ==
    LET groups == SortGroups({<<date_data[i].seller_id, date_data[i].seller_name,
                                date_data[i].symbol>> : i \in DOMAIN date_data})
        rowsOf(g) == SelectSeq(date_data, LAMBDA r :
                        <<r.seller_id, r.seller_name, r.symbol>> = g)
    IN  [k \in DOMAIN groups |->
            [id |-> groups[k][1], name |-> groups[k][2], symbol |-> groups[k][3],
             quantity |-> rowsOf(groups[k])[1].quantity,
             amount |-> rowsOf(groups[k])[1].amount]]

\* lines 97-100: date_data.groupby(['seller_id', 'seller_name', 'symbol']).agg(sum)
sell_data(date_data) ==
    LET groups == SortGroups({<<date_data[i].seller_id, date_data[i].seller_name,
                                date_data[i].symbol>> : i \in DOMAIN date_data})
        rowsOf(g) == SelectSeq(date_data, LAMBDA r :
                        <<r.seller_id, r.seller_name, r.symbol>> = g)
    IN  [k \in DOMAIN groups |->
            [id |-> groups[k][1], name |-> groups[k][2], symbol |-> groups[k][3],
             quantity |-> SumSeq([i \in DOMAIN rowsOf(groups[k]) |->
                                    rowsOf(groups[k])[i].quantity]),
             amount |-> SumSeq([i \in DOMAIN rowsOf(groups[k]) |->
                                    rowsOf(groups[k])[i].amount])]]

\* position of key (broker_id, symbol) in the insertion-ordered dict, 0 if absent
AggIndex(aggs, id, symbol) ==
    IF \E i \in DOMAIN aggs : aggs[i].broker_id = id /\ aggs[i].symbol = symbol
    THEN CHOOSE i \in DOMAIN aggs : aggs[i].broker_id = id /\ aggs[i].symbol = symbol
    ELSE 0

\* the entry taking the name of every buy row folded into it
add_buy_renaming(aggs, date, row) ==
    LET i == AggIndex(aggs, row.id, row.symbol)
    IN  IF i = 0
        THEN Append(aggs, [date |-> date, broker_id |-> row.id,
                           broker_name |-> row.name, symbol |-> row.symbol,
                           buy_quantity |-> row.quantity, buy_amount |-> row.amount,
                           sell_quantity |-> 0, sell_amount |-> 0])
        ELSE [aggs EXCEPT ![i].buy_quantity = @ + row.quantity,
                          ![i].buy_amount = @ + row.amount,
                          ![i].broker_name = row.name]

\* lines 104-119: one row of buy_data folded into broker_stock_aggs
add_buy(aggs, date, row) ==
    LET i == AggIndex(aggs, row.id, row.symbol)
    IN  IF i = 0
        THEN Append(aggs, [date |-> date, broker_id |-> row.id,
                           broker_name |-> row.name, symbol |-> row.symbol,
                           buy_quantity |-> row.quantity, buy_amount |-> row.amount,
                           sell_quantity |-> 0, sell_amount |-> 0])
        ELSE [aggs EXCEPT ![i].buy_quantity = @ + row.quantity,
                          ![i].buy_amount = @ + row.amount]

\* the sell side kept in a row of its own
add_sell_separate(aggs, date, row) ==
    Append(aggs, [date |-> date, broker_id |-> row.id,
                  broker_name |-> row.name, symbol |-> row.symbol,
                  buy_quantity |-> 0, buy_amount |-> 0,
                  sell_quantity |-> row.quantity, sell_amount |-> row.amount])

\* lines 122-137: one row of sell_data folded into broker_stock_aggs
add_sell(aggs, date, row) ==
    LET i == AggIndex(aggs, row.id, row.symbol)
    IN  IF i = 0
        THEN Append(aggs, [date |-> date, broker_id |-> row.id,
                           broker_name |-> row.name, symbol |-> row.symbol,
                           buy_quantity |-> 0, buy_amount |-> 0,
                           sell_quantity |-> row.quantity, sell_amount |-> row.amount])
        ELSE [aggs EXCEPT ![i].sell_quantity = @ + row.quantity,
                          ![i].sell_amount = @ + row.amount]

RECURSIVE add_buys(_, _, _)
add_buys(aggs, date, rows) ==
    IF rows = <<>> THEN aggs
    ELSE add_buys(add_buy(aggs, date, Head(rows)), date, Tail(rows))

RECURSIVE add_sells(_, _, _)
add_sells(aggs, date, rows) ==
    IF rows = <<>> THEN aggs
    ELSE add_sells(add_sell(aggs, date, Head(rows)), date, Tail(rows))

\* a summary row: the accumulators and the derived columns
DateRow(x) ==
    [date |-> x.date, broker_id |-> x.broker_id, broker_name |-> x.broker_name,
     symbol |-> x.symbol, buy_quantity |-> x.buy_quantity, buy_amount |-> x.buy_amount,
     sell_quantity |-> x.sell_quantity, sell_amount |-> x.sell_amount,
     avg_buy_price |-> Derived(x).avg_buy_price,
     avg_sell_price |-> Derived(x).avg_sell_price,
     net_quantity |-> Derived(x).net_quantity,
     avg_holding_price |-> Derived(x).avg_holding_price]

\* lines 84-167: the summary of one date
summarize_date(data, date) ==
    LET date_data == SelectSeq(data, LAMBDA r : r.date = date)
        aggs == add_sells(add_buys(<<>>, date, buy_data(date_data)),
                          date, sell_data(date_data))
    IN  [k \in DOMAIN aggs |-> DateRow(aggs[k])]

\* summarize_by_date: the dict date -> summary, in insertion order.  raising
\* are the dates whose fold raises an exception: the try of line 67 encloses
\* the loop over the dates, and its handler returns {}.
summarize_by_date(df, raising) ==
    LET dates == Unique([i \in DOMAIN df |-> df[i].date])
    IN  IF \E k \in DOMAIN dates : dates[k] \in raising
        THEN <<>>
        ELSE [k \in DOMAIN dates |->
                [date |-> dates[k], rows |-> summarize_date(df, dates[k])]]

\* the raw table loaded without the retention filter
date_load_data_unfiltered(file, cutoff) ==
    IF file.status # "ok" THEN <<>> ELSE file.table

\* FloorsheetDateSummarizer.load_data with cutoff_date = cutoff
date_load_data(file, cutoff) ==
    IF file.status # "ok" THEN <<>>
    ELSE RetentionFilter(file.table, cutoff)

RECURSIVE Concat(_)
Concat(ss) == IF ss = <<>> THEN <<>> ELSE Head(ss) \o Concat(Tail(ss))

date_existing_unfiltered(existing, cutoff) == existing

\* lines 207-213: retention on the existing Date Rollup table
date_existing_retention(existing, cutoff) == RetentionFilter(existing, cutoff)

\* lines 221-234: what one new date appends to all_date_summaries when the
\* existing table is not empty
upsert_date(existing_df, s) ==
    IF s.date \in {existing_df[i].date : i \in DOMAIN existing_df}
    THEN SelectSeq(existing_df, LAMBDA r : r.date # s.date) \o s.rows
    ELSE s.rows

\* lines 196-254: combined_df
combine_date_summaries(date_summaries, file, cutoff) ==
    LET existing_df == IF file.status = "ok"
                       THEN date_existing_retention(file.table, cutoff)
                       ELSE <<>>
    IN  IF existing_df # <<>>
        THEN Concat([k \in DOMAIN date_summaries |->
                        upsert_date(existing_df, date_summaries[k])])
        ELSE Concat([k \in DOMAIN date_summaries |-> date_summaries[k].rows])

\* save_date_summaries(date_summaries) with cutoff_date = cutoff
save_date_summaries(date_summaries, file, cutoff, outcome) ==
    IF date_summaries = <<>>
    THEN [ok |-> FALSE, file |-> file, writes |-> <<>>]
    ELSE LET combined_df == combine_date_summaries(date_summaries, file, cutoff)
         IN  IF combined_df # <<>>
             THEN [ok |-> outcome = "ok",
                   file |-> write_table(file, combined_df, outcome),
                   writes |-> <<outcome>>]
             ELSE [ok |-> FALSE, file |-> file, writes |-> <<>>]

\* FloorsheetDateSummarizer.run: [ok, file, writes, summaries]
date_run(raw, file, cutoff, outcome, raising) ==
    LET raw_data == date_load_data(raw, cutoff)
        date_summaries == summarize_by_date(raw_data, raising)
        saved == save_date_summaries(date_summaries, file, cutoff, outcome)
    IN  IF raw_data = <<>>
        THEN [ok |-> FALSE, file |-> file, writes |-> <<>>, summaries |-> <<>>]
        ELSE [ok |-> saved.ok, file |-> saved.file, writes |-> saved.writes,
              summaries |-> date_summaries]

(***************************************************************************)
(* Global Rollup: floorsheet_summarizer.py                                 *)
(***************************************************************************)
\* FloorsheetSummarizer.load_data: no retention filtering
global_load_data(file) == IF file.status # "ok" THEN <<>> ELSE file.table

\* the dict keyed by (broker_id, symbol), the name left out of the key
GlobalIndexNameless(aggs, row) ==
    IF \E i \in DOMAIN aggs : /\ aggs[i].broker_id = row.broker_id
                              /\ aggs[i].symbol = row.symbol
    THEN CHOOSE i \in DOMAIN aggs : /\ aggs[i].broker_id = row.broker_id
                                    /\ aggs[i].symbol = row.symbol
    ELSE 0

\* position of key (broker_id, broker_name, symbol) in the dict, 0 if absent
GlobalIndex(aggs, row) ==
    IF \E i \in DOMAIN aggs : /\ aggs[i].broker_id = row.broker_id
                              /\ aggs[i].broker_name = row.broker_name
                              /\ aggs[i].symbol = row.symbol
    THEN CHOOSE i \in DOMAIN aggs : /\ aggs[i].broker_id = row.broker_id
                                    /\ aggs[i].broker_name = row.broker_name
                                    /\ aggs[i].symbol = row.symbol
    ELSE 0

\* a later row of the same key replacing the entry instead of adding to it
add_row_replacing(aggs, row) ==
    LET i == GlobalIndex(aggs, row)
        entry == [broker_id |-> row.broker_id, broker_name |-> row.broker_name,
                  symbol |-> row.symbol,
                  buy_quantity |-> row.buy_quantity, buy_amount |-> row.buy_amount,
                  sell_quantity |-> row.sell_quantity,
                  sell_amount |-> row.sell_amount,
                  last_updated |-> row.date]
    IN  IF i = 0 THEN Append(aggs, entry) ELSE [aggs EXCEPT ![i] = entry]

\* last_updated set to the date of whichever row is folded last
add_row_latest_seen(aggs, row) ==
    LET i == GlobalIndex(aggs, row)
    IN  IF i = 0
        THEN Append(aggs, [broker_id |-> row.broker_id, broker_name |-> row.broker_name,
                           symbol |-> row.symbol,
                           buy_quantity |-> row.buy_quantity, buy_amount |-> row.buy_amount,
                           sell_quantity |-> row.sell_quantity,
                           sell_amount |-> row.sell_amount,
                           last_updated |-> row.date])
        ELSE [aggs EXCEPT ![i].buy_quantity = @ + row.buy_quantity,
                          ![i].buy_amount = @ + row.buy_amount,
                          ![i].sell_quantity = @ + row.sell_quantity,
                          ![i].sell_amount = @ + row.sell_amount,
                          ![i].last_updated = row.date]

\* lines 68-92: one Date Rollup row folded into broker_stock_aggs
add_row(aggs, row) ==
    LET i == GlobalIndex(aggs, row)
    IN  IF i = 0
        THEN Append(aggs, [broker_id |-> row.broker_id, broker_name |-> row.broker_name,
                           symbol |-> row.symbol,
                           buy_quantity |-> row.buy_quantity, buy_amount |-> row.buy_amount,
                           sell_quantity |-> row.sell_quantity,
                           sell_amount |-> row.sell_amount,
                           last_updated |-> row.date])
        ELSE [aggs EXCEPT ![i].buy_quantity = @ + row.buy_quantity,
                          ![i].buy_amount = @ + row.buy_amount,
                          ![i].sell_quantity = @ + row.sell_quantity,
                          ![i].sell_amount = @ + row.sell_amount,
                          ![i].last_updated = IF DateGT(row.date, @) THEN row.date ELSE @]

RECURSIVE add_rows(_, _)
add_rows(aggs, rows) ==
    IF rows = <<>> THEN aggs ELSE add_rows(add_row(aggs, Head(rows)), Tail(rows))

GlobalRow(x) ==
    [broker_id |-> x.broker_id, broker_name |-> x.broker_name, symbol |-> x.symbol,
     buy_quantity |-> x.buy_quantity, buy_amount |-> x.buy_amount,
     sell_quantity |-> x.sell_quantity, sell_amount |-> x.sell_amount,
     last_updated |-> x.last_updated,
     avg_buy_price |-> Derived(x).avg_buy_price,
     avg_sell_price |-> Derived(x).avg_sell_price,
     net_quantity |-> Derived(x).net_quantity,
     avg_holding_price |-> Derived(x).avg_holding_price]

\* aggregate_broker_stock_data(df)
aggregate_broker_stock_data(df) ==
    LET aggs == add_rows(<<>>, df)
    IN  [k \in DOMAIN aggs |-> GlobalRow(aggs[k])]

\* the aggregated rows appended to what the file held
save_aggregated_appending(df, file, outcome) ==
    IF df = <<>>
    THEN [ok |-> FALSE, file |-> file, writes |-> <<>>]
    ELSE [ok |-> TRUE, file |-> File("ok", file.table \o df), writes |-> <<"ok">>]

\* save_aggregated_data(df): always overwrites
save_aggregated_data(df, file, outcome) ==
    IF df = <<>>
    THEN [ok |-> FALSE, file |-> file, writes |-> <<>>]
    ELSE [ok |-> outcome = "ok", file |-> write_table(file, df, outcome),
          writes |-> <<outcome>>]

\* FloorsheetSummarizer.run
global_run(dfile, file, outcome) ==
    LET date_summarized_data == global_load_data(dfile)
        aggregated_data == aggregate_broker_stock_data(date_summarized_data)
    IN  IF date_summarized_data = <<>> \/ aggregated_data = <<>>
        THEN [ok |-> FALSE, file |-> file, writes |-> <<>>]
        ELSE save_aggregated_data(aggregated_data, file, outcome)

(***************************************************************************)
(* The three stages as actions.  Each run is one invocation of a script;   *)
(* cutoff_date = now - retention_days is an input of the run.              *)
(***************************************************************************)
RawFile == File(rawStatus, rawTable)
DateFile == File(dateStatus, dateTable)
GlobalFile == File(globalStatus, globalTable)

Files == [raw |-> RawFile, date |-> DateFile, global |-> GlobalFile]

Last == [op |-> op, ok |-> ok, cut |-> cut]

\* the paths the three programs are given, named by the table kept there
downloader_output_file == "raw"
date_input_file == "raw"
date_output_file == "date"
global_input_file == "date"
\* the Global Rollup writing over its own input
global_output_file_shared == "date"
global_output_file == "global"

\* the files after the program has left file at path
Stored(files, path, file) == [files EXCEPT ![path] = file]

NoDate == <<0, 0, 0>>

Init ==
    /\ rawStatus = "absent" /\ rawTable = <<>>
    /\ dateStatus = "absent" /\ dateTable = <<>>
    /\ globalStatus = "absent" /\ globalTable = <<>>
    /\ op = "none" /\ ok = FALSE /\ cut = NoDate
    /\ batch = <<>> /\ summ = <<>>
    /\ pre = [raw |-> File("absent", <<>>), date |-> File("absent", <<>>),
              global |-> File("absent", <<>>)]
    /\ prev = [op |-> "none", ok |-> FALSE, cut |-> NoDate]
    /\ runs = 0 /\ wr = <<>> /\ raised = {}
    /\ fin = [table |-> <<>>, cutoff |-> NoDate]
    /\ fout = <<>>

\* download_floorsheet returned df; save_to_parquet with cutoff_date = cutoff
\* and write outcomes w
DownloaderRun(df, cutoff, w) ==
    /\ runs < MaxRuns
    /\ LET r == save_to_parquet(df, Files[downloader_output_file], cutoff, w)
           after == Stored(Files, downloader_output_file, r.file)
       IN  /\ rawStatus' = after.raw.status /\ rawTable' = after.raw.table
           /\ dateStatus' = after.date.status /\ dateTable' = after.date.table
           /\ globalStatus' = after.global.status /\ globalTable' = after.global.table
           /\ op' = "raw" /\ ok' = r.ok /\ cut' = cutoff /\ batch' = df
           /\ wr' = r.writes
    /\ pre' = Files /\ prev' = Last /\ runs' = runs + 1
    /\ UNCHANGED <<summ, raised, fin, fout>>

\* floorsheet_downloader.main, every write succeeding
DownloaderMain ==
    \E df \in Batches, cutoff \in Cutoffs : DownloaderRun(df, cutoff, AllWritesOk)

\* FloorsheetDateSummarizer.run with cutoff_date = cutoff, as one step
DateSummarizerRun(cutoff, outcome, raising) ==
    /\ runs < MaxRuns
    /\ LET r == date_run(Files[date_input_file], Files[date_output_file], cutoff,
                         outcome, raising)
           after == Stored(Files, date_output_file, r.file)
       IN  /\ rawStatus' = after.raw.status /\ rawTable' = after.raw.table
           /\ dateStatus' = after.date.status /\ dateTable' = after.date.table
           /\ globalStatus' = after.global.status /\ globalTable' = after.global.table
           /\ summ' = r.summaries
           /\ op' = "date" /\ ok' = r.ok /\ cut' = cutoff
           /\ wr' = r.writes /\ raised' = raising
    /\ pre' = Files /\ prev' = Last /\ runs' = runs + 1
    /\ UNCHANGED <<batch, fin, fout>>

\* floorsheet_date_summarizer.main, no fold raising and the write succeeding
DateSummarizerMain == \E cutoff \in Cutoffs : DateSummarizerRun(cutoff, "ok", {})

\* FloorsheetSummarizer.run as one step
SummarizerRun(outcome) ==
    /\ runs < MaxRuns
    /\ LET r == global_run(Files[global_input_file], Files[global_output_file], outcome)
           after == Stored(Files, global_output_file, r.file)
       IN  /\ rawStatus' = after.raw.status /\ rawTable' = after.raw.table
           /\ dateStatus' = after.date.status /\ dateTable' = after.date.table
           /\ globalStatus' = after.global.status /\ globalTable' = after.global.table
           /\ op' = "global" /\ ok' = r.ok
           /\ wr' = r.writes
    /\ pre' = Files /\ prev' = Last /\ runs' = runs + 1
    /\ UNCHANGED <<cut, batch, summ, raised, fin, fout>>

\* floorsheet_summarizer.main, the write succeeding
SummarizerMain == SummarizerRun("ok")

Next == DownloaderMain \/ DateSummarizerMain \/ SummarizerMain

Spec == Init /\ [][Next]_vars

(***************************************************************************)
(* The retention filter on its own: any table with a date column, any      *)
(* cutoff; the filter is applied, then applied again to its own output.    *)
(***************************************************************************)
FilterDates == Range(DateList)

FilterRows == [date : FilterDates, transaction_no : 1..2]

FilterTables == UNION {[1..n -> FilterRows] : n \in 0..MaxLen}

InitFilter ==
    /\ rawStatus = "absent" /\ rawTable = <<>>
    /\ dateStatus = "absent" /\ dateTable = <<>>
    /\ globalStatus = "absent" /\ globalTable = <<>>
    /\ op = "none" /\ ok = FALSE /\ cut = NoDate
    /\ batch = <<>> /\ summ = <<>>
    /\ pre = [raw |-> File("absent", <<>>), date |-> File("absent", <<>>),
              global |-> File("absent", <<>>)]
    /\ prev = [op |-> "none", ok |-> FALSE, cut |-> NoDate]
    /\ runs = 0 /\ wr = <<>> /\ raised = {}
    /\ fin \in [table : FilterTables, cutoff : FilterDates]
    /\ fout = <<>>

ApplyFilter ==
    /\ fout = <<>>
    /\ fout' = <<RetentionFilter(fin.table, fin.cutoff)>>
    /\ UNCHANGED <<rawStatus, rawTable, dateStatus, dateTable, globalStatus,
                   globalTable, op, ok, cut, batch, pre, summ, prev, runs, wr,
                   raised, fin>>

ReapplyFilter ==
    /\ Len(fout) = 1
    /\ fout' = Append(fout, RetentionFilter(fout[1], fin.cutoff))
    /\ UNCHANGED <<rawStatus, rawTable, dateStatus, dateTable, globalStatus,
                   globalTable, op, ok, cut, batch, pre, summ, prev, runs, wr,
                   raised, fin>>

NextFilter == ApplyFilter \/ ReapplyFilter

SpecFilter == InitFilter /\ [][NextFilter]_vars

(***************************************************************************)
(* The two rollups over any small Raw Store content: a broker shown under   *)
(* two names, a trade inside one broker, two symbols, zero quantities and  *)
(* zero amounts.  The cutoff keeps every date.                             *)
(***************************************************************************)
FoldDates == {DateList[1], DateList[2]}

\* (buyer_id, buyer_name, seller_id, seller_name, symbol)
FoldDeals == {<<"B1", "N1", "B2", "N2", "X">>, <<"B2", "N2", "B1", "N1b", "X">>,
              <<"B1", "N1b", "B1", "N1", "X">>, <<"B2", "N2", "B1", "N1", "Y">>}

\* (quantity, amount)
FoldTrades == {<<0, 4200>>, <<40, 0>>, <<100, 10000>>}

FoldRecords(t) ==
    {Transaction(d, t, p[5], p[1], p[2], p[3], p[4], qa[1], qa[2]) :
        d \in FoldDates, p \in FoldDeals, qa \in FoldTrades}

RECURSIVE FoldTablesOfLen(_)
FoldTablesOfLen(n) ==
    IF n = 0 THEN {<<>>}
    ELSE {Append(tbl, r) : tbl \in FoldTablesOfLen(n - 1), r \in FoldRecords(n)}

FoldTables == UNION {FoldTablesOfLen(n) : n \in 1..MaxFold}

InitFold ==
    /\ rawStatus = "ok" /\ rawTable \in FoldTables
    /\ dateStatus = "absent" /\ dateTable = <<>>
    /\ globalStatus = "absent" /\ globalTable = <<>>
    /\ op = "none" /\ ok = FALSE /\ cut = NoDate
    /\ batch = <<>> /\ summ = <<>>
    /\ pre = [raw |-> File("absent", <<>>), date |-> File("absent", <<>>),
              global |-> File("absent", <<>>)]
    /\ prev = [op |-> "none", ok |-> FALSE, cut |-> NoDate]
    /\ runs = 0 /\ wr = <<>> /\ raised = {}
    /\ fin = [table |-> <<>>, cutoff |-> NoDate]
    /\ fout = <<>>

FoldDateRollup == runs < MaxFoldRuns /\ DateSummarizerRun(DateList[1], "ok", {})

FoldGlobalRollup == runs < MaxFoldRuns /\ SummarizerMain

NextFold == FoldDateRollup \/ FoldGlobalRollup

SpecFold == InitFold /\ [][NextFold]_vars

(***************************************************************************)
(* summarize_by_date on its own: the records of one trading date, folded   *)
(* once as they are and once more after a permutation.                     *)
(***************************************************************************)
\* (quantity, amount)
PermTrades == {<<40, 4200>>, <<100, 10000>>}

PermRecords(t) ==
    {Transaction(DateList[1], t, p[5], p[1], p[2], p[3], p[4], qa[1], qa[2]) :
        p \in FoldDeals, qa \in PermTrades}

RECURSIVE PermTablesOfLen(_)
PermTablesOfLen(n) ==
    IF n = 0 THEN {<<>>}
    ELSE {Append(tbl, r) : tbl \in PermTablesOfLen(n - 1), r \in PermRecords(n)}

PermTables == UNION {PermTablesOfLen(n) : n \in 1..MaxPerm}

Reorderings(n) == {f \in [1..n -> 1..n] : \A i, j \in 1..n : f[i] = f[j] => i = j}

InitPerm ==
    /\ rawStatus = "absent" /\ rawTable = <<>>
    /\ dateStatus = "absent" /\ dateTable = <<>>
    /\ globalStatus = "absent" /\ globalTable = <<>>
    /\ op = "none" /\ ok = FALSE /\ cut = NoDate
    /\ batch = <<>> /\ summ = <<>>
    /\ pre = [raw |-> File("absent", <<>>), date |-> File("absent", <<>>),
              global |-> File("absent", <<>>)]
    /\ prev = [op |-> "none", ok |-> FALSE, cut |-> NoDate]
    /\ runs = 0 /\ wr = <<>> /\ raised = {}
    /\ fin \in [table : PermTables, cutoff : {NoDate}]
    /\ fout = <<>>

Summarize ==
    /\ fout = <<>>
    /\ fout' = <<[df |-> fin.table, out |-> summarize_by_date(fin.table, {})]>>
    /\ UNCHANGED <<rawStatus, rawTable, dateStatus, dateTable, globalStatus,
                   globalTable, op, ok, cut, batch, pre, summ, prev, runs, wr,
                   raised, fin>>

SummarizePermuted ==
    /\ Len(fout) = 1
    /\ \E f \in Reorderings(Len(fin.table)) :
          LET df == [i \in DOMAIN fin.table |-> fin.table[f[i]]]
          IN  fout' = Append(fout, [df |-> df, out |-> summarize_by_date(df, {})])
    /\ UNCHANGED <<rawStatus, rawTable, dateStatus, dateTable, globalStatus,
                   globalTable, op, ok, cut, batch, pre, summ, prev, runs, wr,
                   raised, fin>>

NextPerm == Summarize \/ SummarizePermuted

SpecPerm == InitPerm /\ [][NextPerm]_vars

(***************************************************************************)
(* The Global Rollup on its own: a Date Rollup table written from any      *)
(* small Raw Store content, and a global file that is absent or left over  *)
(* from an earlier Raw Store content.                                      *)
(***************************************************************************)
\* the two transactions of the end-to-end example, on one date
ExampleRaw ==
    <<Transaction(DateList[1], 1, "X", "B1", "N1", "B2", "N2", 100, 10000),
      Transaction(DateList[1], 2, "X", "B2", "N2", "B1", "N1", 40, 4200)>>

\* the Date Rollup file after a first run over the raw table
FirstDateFile(raw) ==
    date_run(File("ok", raw), File("absent", <<>>), DateList[1], "ok", {}).file

EarlierGlobalFiles ==
    {File("absent", <<>>),
     global_run(FirstDateFile(ExampleRaw), File("absent", <<>>), "ok").file}

InitGlobal ==
    /\ rawStatus = "ok" /\ rawTable \in FoldTables
    /\ dateStatus = FirstDateFile(rawTable).status
    /\ dateTable = FirstDateFile(rawTable).table
    /\ \E g \in EarlierGlobalFiles :
          globalStatus = g.status /\ globalTable = g.table
    /\ op = "none" /\ ok = FALSE /\ cut = NoDate
    /\ batch = <<>> /\ summ = <<>>
    /\ pre = [raw |-> File("absent", <<>>), date |-> File("absent", <<>>),
              global |-> File("absent", <<>>)]
    /\ prev = [op |-> "none", ok |-> FALSE, cut |-> NoDate]
    /\ runs = 0 /\ wr = <<>> /\ raised = {}
    /\ fin = [table |-> <<>>, cutoff |-> NoDate]
    /\ fout = <<>>

GlobalRollup == runs < MaxGlobalRuns /\ SummarizerMain

NextGlobal == GlobalRollup

SpecGlobal == InitGlobal /\ [][NextGlobal]_vars

(***************************************************************************)
(* The pipeline with writes that can fail, started with no file or with    *)
(* the three files of the end-to-end example.                              *)
(***************************************************************************)
\* no fold raises, or the fold of one date does
FoldFaults == {{}} \cup {{d} : d \in FoldDates}

\* the first transaction of the example, on either date
FaultRecords ==
    {Transaction(d, 1, "X", "B1", "N1", "B2", "N2", 100, 10000) : d \in FoldDates}

\* a failed fetch, or a batch of one record
FaultBatches == {<<>>} \cup {<<r>> : r \in FaultRecords}

ExampleFiles ==
    [raw |-> File("ok", ExampleRaw),
     date |-> FirstDateFile(ExampleRaw),
     global |-> global_run(FirstDateFile(ExampleRaw), File("absent", <<>>), "ok").file]

NoFiles ==
    [raw |-> File("absent", <<>>), date |-> File("absent", <<>>),
     global |-> File("absent", <<>>)]

InitFault ==
    /\ \E f \in {NoFiles, ExampleFiles} :
          /\ rawStatus = f.raw.status /\ rawTable = f.raw.table
          /\ dateStatus = f.date.status /\ dateTable = f.date.table
          /\ globalStatus = f.global.status /\ globalTable = f.global.table
    /\ op = "none" /\ ok = FALSE /\ cut = NoDate
    /\ batch = <<>> /\ summ = <<>>
    /\ pre = NoFiles
    /\ prev = [op |-> "none", ok |-> FALSE, cut |-> NoDate]
    /\ runs = 0 /\ wr = <<>> /\ raised = {}
    /\ fin = [table |-> <<>>, cutoff |-> NoDate]
    /\ fout = <<>>

FaultyDownloader ==
    /\ runs < MaxFaultRuns
    /\ \E df \in FaultBatches, cutoff \in FoldDates, w \in WritePlans :
          DownloaderRun(df, cutoff, w)

FaultyDateRollup ==
    /\ runs < MaxFaultRuns
    /\ \E cutoff \in FoldDates, outcome \in WriteOutcomes, raising \in FoldFaults :
          DateSummarizerRun(cutoff, outcome, raising)

FaultyGlobalRollup ==
    /\ runs < MaxFaultRuns
    /\ \E outcome \in WriteOutcomes : SummarizerRun(outcome)

NextFault == FaultyDownloader \/ FaultyDateRollup \/ FaultyGlobalRollup

SpecFault == InitFault /\ [][NextFault]_vars

(***************************************************************************)
(* Complete pipeline passes with one cutoff that keeps every date: the     *)
(* state after a first pass over a fetched batch, then a second pass, its  *)
(* three programs run in order, each started once the one before it has    *)
(* reported success.  fin.table is the raw table the second pass starts    *)
(* with.                                                                   *)
(***************************************************************************)
MaxPassRuns == 3

PassCutoff == DateList[1]

\* the three files after a pass over batch df, started with the files fs
PassFiles(fs, df) ==
    LET r == save_to_parquet(df, fs.raw, PassCutoff, AllWritesOk).file
        d == date_run(r, fs.date, PassCutoff, "ok", {}).file
    IN  [raw |-> r, date |-> d, global |-> global_run(d, fs.global, "ok").file]

\* what the second pass fetches: the records it has already, or one new one
PassBatches(raw) ==
    {raw} \cup {<<Transaction(d, MaxFold + 1, "X", "B1", "N1", "B2", "N2", 100, 10000)>> :
                    d \in FoldDates}

\* the state at the end of a first pass, started with no file, over batch
InitPass ==
    /\ batch \in FoldTables
    /\ rawStatus = "ok" /\ rawTable = batch
    /\ RawFile = PassFiles(NoFiles, batch).raw
    /\ dateStatus = PassFiles(NoFiles, batch).date.status
    /\ dateTable = PassFiles(NoFiles, batch).date.table
    /\ globalStatus = PassFiles(NoFiles, batch).global.status
    /\ globalTable = PassFiles(NoFiles, batch).global.table
    /\ summ = date_run(RawFile, NoFiles.date, PassCutoff, "ok", {}).summaries
    /\ pre = [raw |-> RawFile, date |-> DateFile, global |-> NoFiles.global]
    /\ fin = [table |-> rawTable, cutoff |-> PassCutoff]
    /\ op = "global" /\ ok = TRUE /\ cut = PassCutoff
    /\ prev = [op |-> "date", ok |-> TRUE, cut |-> PassCutoff]
    /\ runs = 0 /\ wr = <<"ok">> /\ raised = {}
    /\ fout = <<>>

PassDownloader ==
    /\ runs < MaxPassRuns
    /\ op = "global" /\ ok
    /\ \E df \in PassBatches(rawTable) : DownloaderRun(df, PassCutoff, AllWritesOk)

PassDateRollup ==
    /\ runs < MaxPassRuns
    /\ op = "raw" /\ ok
    /\ DateSummarizerRun(PassCutoff, "ok", {})

PassGlobalRollup ==
    /\ runs < MaxPassRuns
    /\ op = "date" /\ ok
    /\ SummarizerMain

NextPass == PassDownloader \/ PassDateRollup \/ PassGlobalRollup

SpecPass == InitPass /\ [][NextPass]_vars

(***************************************************************************)
(* download_floorsheet on its own, one page request per step.  The         *)
(* Transaction Source has fin.pages, the table rows of its pages, and      *)
(* fin.up tells which page requests succeed.  fout is the log of the       *)
(* requests: the page, whether _get_page returned it, self.all_data        *)
(* afterwards, and whether download_floorsheet has returned.               *)
(***************************************************************************)
\* what a page of the source can hold: no row, or one transaction
PageContents(k) ==
    {<<>>} \cup {<<Transaction(DateList[1], k, "X", p[1], NameOf(p[1]),
                               p[2], NameOf(p[2]), p[3], p[4])>> : p \in Trades}

RECURSIVE SourcesOfLen(_)
SourcesOfLen(n) ==
    IF n = 0 THEN {<<>>}
    ELSE {Append(src, pg) : src \in SourcesOfLen(n - 1), pg \in PageContents(n)}

Sources == UNION {SourcesOfLen(n) : n \in 1..MaxPages}

\* self.all_data after a later page was fetched and its failure forgotten
after_page_discarding(all_data, page, fetched) ==
    IF fetched THEN all_data \o page ELSE <<>>

\* lines 215-220: self.all_data after the request for a later page
after_page(all_data, page, fetched) ==
    IF fetched THEN all_data \o page ELSE all_data

InitFetch ==
    /\ rawStatus = "absent" /\ rawTable = <<>>
    /\ dateStatus = "absent" /\ dateTable = <<>>
    /\ globalStatus = "absent" /\ globalTable = <<>>
    /\ op = "none" /\ ok = FALSE /\ cut = NoDate
    /\ batch = <<>> /\ summ = <<>>
    /\ pre = [raw |-> File("absent", <<>>), date |-> File("absent", <<>>),
              global |-> File("absent", <<>>)]
    /\ prev = [op |-> "none", ok |-> FALSE, cut |-> NoDate]
    /\ runs = 0 /\ wr = <<>> /\ raised = {}
    /\ \E src \in Sources :
          fin \in [pages : {src}, up : [1..Len(src) -> BOOLEAN]]
    /\ fout = <<>>

\* lines 190-207: the first page; a failure returns an empty DataFrame
FetchFirstPage ==
    /\ fout = <<>>
    /\ fout' = <<[page |-> 1, fetched |-> fin.up[1],
                  all_data |-> IF fin.up[1] THEN fin.pages[1] ELSE <<>>,
                  returned |-> (~fin.up[1] \/ Len(fin.pages) = 1)]>>
    /\ UNCHANGED <<rawStatus, rawTable, dateStatus, dateTable, globalStatus,
                   globalTable, op, ok, cut, batch, pre, summ, prev, runs, wr,
                   raised, fin>>

\* lines 210-223: one turn of the loop over the remaining pages; the function
\* returns after the turn for the last page
FetchNextPage ==
    /\ fout # <<>>
    /\ ~fout[Len(fout)].returned
    /\ LET k == fout[Len(fout)].page + 1
       IN  fout' = Append(fout,
                [page |-> k, fetched |-> fin.up[k],
                 all_data |-> after_page(fout[Len(fout)].all_data, fin.pages[k],
                                         fin.up[k]),
                 returned |-> (k = Len(fin.pages))])
    /\ UNCHANGED <<rawStatus, rawTable, dateStatus, dateTable, globalStatus,
                   globalTable, op, ok, cut, batch, pre, summ, prev, runs, wr,
                   raised, fin>>

NextFetch == FetchFirstPage \/ FetchNextPage

SpecFetch == InitFetch /\ [][NextFetch]_vars

(***************************************************************************)
(* Vocabulary of the claims.                                               *)
(***************************************************************************)
DatesOf(tbl) == {tbl[i].date : i \in DOMAIN tbl}

RowsOn(tbl, d) == SelectSeq(tbl, LAMBDA r : r.date = d)

SummDates == {summ[k].date : k \in DOMAIN summ}

\* chronological order of two dates, by day number
DayNumber(d) == d[1] * 372 + d[2] * 31 + d[3]

NotOlder(d, c) == DayNumber(d) >= DayNumber(c)

\* the last run was a successful Date Rollup run over a readable table
DateRunOverTable == op = "date" /\ ok /\ pre.date.status = "ok"

\* the last run was a successful Raw Store run over a readable table
RawRunOverTable == op = "raw" /\ ok /\ pre.raw.status = "ok"

SameKey(a, b) == a.date = b.date /\ a.transaction_no = b.transaction_no

(***************************************************************************)
(* C1: Date Rollup idempotency.  When two Date Rollup runs with the same   *)
(* cutoff_date succeed one right after the other (so the Raw Store did not *)
(* change in between), the Date Rollup table after the second run equals,  *)
(* as a multiset of rows, the table after the first run.                   *)
(***************************************************************************)
C1_RollupIdempotent ==
    (/\ op = "date" /\ ok
     /\ prev.op = "date" /\ prev.ok /\ prev.cut = cut
     /\ pre.date.status = "ok")
    => SeqToBag(dateTable) = SeqToBag(pre.date.table)

(***************************************************************************)
(* C2: Upsert replace correctness.  After a Date Rollup save, for every    *)
(* date D that was in the persisted table and is in the new summaries, the *)
(* written table holds for D exactly the newly computed rows, each once.   *)
(***************************************************************************)
C2_ReplaceByDate ==
    DateRunOverTable =>
        \A k \in DOMAIN summ :
            summ[k].date \in DatesOf(pre.date.table) =>
                SeqToBag(RowsOn(dateTable, summ[k].date)) = SeqToBag(summ[k].rows)

(***************************************************************************)
(* C3: Untouched dates are preserved.  After a Date Rollup save, every     *)
(* date E of the persisted table that is not older than cutoff_date and is *)
(* not recomputed by the run has exactly the rows it had before.           *)
(***************************************************************************)
C3_UntouchedKept ==
    DateRunOverTable =>
        \A E \in DatesOf(pre.date.table) :
            (NotOlder(E, cut) /\ E \notin SummDates) =>
                SeqToBag(RowsOn(dateTable, E)) = SeqToBag(RowsOn(pre.date.table, E))

(***************************************************************************)
(* C4 as stated: on a key collision between the new batch and the          *)
(* persisted raw table, the row stored under the key after save_to_parquet *)
(* is the new batch's record.                                              *)
(***************************************************************************)
C4_NewWins ==
    RawRunOverTable =>
        \A i \in DOMAIN batch, j \in DOMAIN pre.raw.table :
            SameKey(batch[i], pre.raw.table[j]) =>
                /\ \E k \in DOMAIN rawTable : rawTable[k] = batch[i]
                /\ \A k \in DOMAIN rawTable :
                       SameKey(rawTable[k], batch[i]) => rawTable[k] = batch[i]

(***************************************************************************)
(* C4 as amended: on a key collision between the new batch and a row of    *)
(* the persisted raw table that is not older than cutoff_date, the row     *)
(* stored under the key after save_to_parquet is the previously persisted  *)
(* row; the batch's record is skipped as a duplicate.                      *)
(***************************************************************************)
C4_ExistingWins ==
    RawRunOverTable =>
        \A i \in DOMAIN batch, j \in DOMAIN pre.raw.table :
            (SameKey(batch[i], pre.raw.table[j]) /\ NotOlder(pre.raw.table[j].date, cut)) =>
                /\ \E k \in DOMAIN rawTable : rawTable[k] = pre.raw.table[j]
                /\ \A k \in DOMAIN rawTable :
                       SameKey(rawTable[k], batch[i]) => rawTable[k] = pre.raw.table[j]

\* a retained persisted row collides with a batch record that differs from it
C4_Witness ==
    /\ RawRunOverTable
    /\ \E i \in DOMAIN batch, j \in DOMAIN pre.raw.table :
          /\ SameKey(batch[i], pre.raw.table[j])
          /\ batch[i] # pre.raw.table[j]
          /\ NotOlder(pre.raw.table[j].date, cut)

(***************************************************************************)
(* C5: Raw Store merge key set.  After save_to_parquet over a readable     *)
(* table, with unique natural keys in the table and in the batch, the      *)
(* persisted table has exactly one row per key (date, transaction_no) and  *)
(* its key set is the union of the keys of the retained existing rows and  *)
(* the keys of the new batch.                                              *)
(***************************************************************************)
NaturalKeys(tbl) == {<<tbl[i].date, tbl[i].transaction_no>> : i \in DOMAIN tbl}

UniqueKeys(tbl) == Cardinality(NaturalKeys(tbl)) = Len(tbl)

Retained(tbl, c) == SelectSeq(tbl, LAMBDA r : NotOlder(r.date, c))

C5_KeySetUnion ==
    (RawRunOverTable /\ UniqueKeys(pre.raw.table) /\ UniqueKeys(batch)) =>
        /\ UniqueKeys(rawTable)
        /\ NaturalKeys(rawTable) =
               NaturalKeys(Retained(pre.raw.table, cut)) \cup NaturalKeys(batch)

\* a run that drops an old row, skips a duplicate and adds a record of a date
\* the table already has
C5_Witness ==
    /\ RawRunOverTable
    /\ Len(Retained(pre.raw.table, cut)) < Len(pre.raw.table)
    /\ NaturalKeys(batch) \cap NaturalKeys(Retained(pre.raw.table, cut)) # {}
    /\ \E i \in DOMAIN batch :
          /\ <<batch[i].date, batch[i].transaction_no>> \notin NaturalKeys(pre.raw.table)
          /\ batch[i].date \in DatesOf(Retained(pre.raw.table, cut))

(***************************************************************************)
(* C6: Raw Store retention.  After a successful Raw Store run, no row of   *)
(* the persisted raw table has a trading date older than the run's         *)
(* cutoff_date, whether it came from the previous table or from the batch. *)
(***************************************************************************)
C6_RawRetention ==
    (op = "raw" /\ ok) =>
        \A k \in DOMAIN rawTable : NotOlder(rawTable[k].date, cut)

(***************************************************************************)
(* C7: Date Rollup retention.  After a successful Date Rollup run, every   *)
(* row of the persisted Date Rollup table has date >= the run's            *)
(* cutoff_date.                                                            *)
(***************************************************************************)
C7_DateRetention ==
    (op = "date" /\ ok) =>
        \A k \in DOMAIN dateTable : NotOlder(dateTable[k].date, cut)

\* the previous table held rows older than the cutoff and rows of a
\* recomputed date, and the Raw Store held records older than the cutoff
C7_Witness ==
    /\ DateRunOverTable
    /\ \E k \in DOMAIN pre.date.table : ~NotOlder(pre.date.table[k].date, cut)
    /\ \E k \in DOMAIN pre.date.table : pre.date.table[k].date \in SummDates
    /\ \E k \in DOMAIN rawTable : ~NotOlder(rawTable[k].date, cut)

(***************************************************************************)
(* C8: Retention filter.  For any table with a date column and any cutoff  *)
(* date C the filter returns exactly the rows with date >= C, in their     *)
(* order, and filtering its output again with the same C removes nothing.  *)
(***************************************************************************)
C8_FilterExact ==
    /\ Len(fout) >= 1 => fout[1] = Retained(fin.table, fin.cutoff)
    /\ Len(fout) >= 2 => fout[2] = fout[1]

\* a table with a row older than C, a row dated C and a row of a later year
C8_Witness ==
    /\ Len(fout) = 2
    /\ \E i \in DOMAIN fin.table : DayNumber(fin.table[i].date) < DayNumber(fin.cutoff)
    /\ \E i \in DOMAIN fout[2] : fout[2][i].date = fin.cutoff
    /\ \E i \in DOMAIN fout[2] : fout[2][i].date[1] > fin.cutoff[1]

(***************************************************************************)
(* C9: Derived metrics.  Every row of the Date Rollup table and of the     *)
(* Global Rollup table has net_quantity = buy_quantity - sell_quantity;    *)
(* buy_quantity = 0 gives avg_buy_price = 0; sell_quantity = 0 gives       *)
(* avg_sell_price = 0; net_quantity <= 0 gives avg_holding_price = 0;      *)
(* net_quantity > 0 gives avg_holding_price = (buy_amount - sell_amount) / *)
(* net_quantity; and no column holds the result of a division by zero.     *)
(***************************************************************************)
SummaryRows == Range(dateTable) \cup Range(globalTable)

\* f is the quotient n / d
IsQuotient(f, n, d) == f[2] > 0 /\ f[1] * d = n * f[2]

MetricsHold(x) ==
    /\ x.net_quantity = x.buy_quantity - x.sell_quantity
    /\ x.buy_quantity = 0 => x.avg_buy_price = <<0, 1>>
    /\ x.sell_quantity = 0 => x.avg_sell_price = <<0, 1>>
    /\ x.net_quantity <= 0 => x.avg_holding_price = <<0, 1>>
    /\ x.net_quantity > 0 =>
           IsQuotient(x.avg_holding_price, x.buy_amount - x.sell_amount, x.net_quantity)
    /\ x.avg_buy_price[2] # 0 /\ x.avg_sell_price[2] # 0 /\ x.avg_holding_price[2] # 0

C9_DerivedMetrics == \A x \in SummaryRows : MetricsHold(x)

\* both tables written; a global row bought nothing yet carries a buy amount,
\* another is net long at a price above zero, a per-date row is net short
C9_Witness ==
    /\ op = "global" /\ ok
    /\ \E x \in Range(globalTable) : x.buy_quantity = 0 /\ x.buy_amount > 0
    /\ \E x \in Range(globalTable) : x.net_quantity > 0 /\ x.avg_holding_price[1] > 0
    /\ \E x \in Range(dateTable) : x.net_quantity < 0 /\ x.sell_quantity > 0

(***************************************************************************)
(* C10 as stated: in every summary row avg_buy_price = 0 exactly when      *)
(* buy_quantity = 0, and avg_sell_price = 0 exactly when sell_quantity = 0.*)
(***************************************************************************)
C10_ZeroIffNoQuantity ==
    \A x \in SummaryRows :
        /\ x.avg_buy_price = <<0, 1>> <=> x.buy_quantity = 0
        /\ x.avg_sell_price = <<0, 1>> <=> x.sell_quantity = 0

(***************************************************************************)
(* C10 as amended: in every summary row avg_buy_price = 0 exactly when     *)
(* buy_quantity = 0 or buy_amount = 0, and avg_sell_price = 0 exactly when *)
(* sell_quantity = 0 or sell_amount = 0.                                   *)
(***************************************************************************)
C10_ZeroIffNoQuantityOrAmount ==
    \A x \in SummaryRows :
        /\ x.avg_buy_price = <<0, 1>> <=> (x.buy_quantity = 0 \/ x.buy_amount = 0)
        /\ x.avg_sell_price = <<0, 1>> <=> (x.sell_quantity = 0 \/ x.sell_amount = 0)

\* a global row that bought a positive quantity for a zero amount, and a
\* per-date row that sold a positive quantity for a positive amount
C10_Witness ==
    /\ \E x \in Range(globalTable) :
          x.buy_quantity > 0 /\ x.buy_amount = 0 /\ x.avg_buy_price = <<0, 1>>
    /\ \E x \in Range(dateTable) :
          x.sell_quantity > 0 /\ x.sell_amount > 0 /\ x.buy_quantity = 0

(***************************************************************************)
(* C11: Broker-Stock Folder result.  For the transactions of one trading   *)
(* date, summarize_by_date produces exactly one row per (broker_id,        *)
(* symbol) pair that occurs as buyer or as seller; the row's buy_quantity  *)
(* and buy_amount are the sums over the date's records where the broker    *)
(* buys the symbol, its sell_quantity and sell_amount the sums where it    *)
(* sells; a broker on both sides gets one row carrying both.               *)
(***************************************************************************)
\* the sum of the numbers of a sequence
RECURSIVE Total(_)
Total(ns) == IF ns = <<>> THEN 0 ELSE ns[Len(ns)] + Total(SubSeq(ns, 1, Len(ns) - 1))

\* the (broker_id, symbol) pairs that occur in the records as buyer or seller
BrokerSymbols(recs) ==
    {<<recs[i].buyer_id, recs[i].symbol>> : i \in DOMAIN recs}
        \cup {<<recs[i].seller_id, recs[i].symbol>> : i \in DOMAIN recs}

\* the rows are the fold of the records of one date
IsFoldOf(rows, recs) ==
    /\ {<<rows[i].broker_id, rows[i].symbol>> : i \in DOMAIN rows} = BrokerSymbols(recs)
    /\ Len(rows) = Cardinality(BrokerSymbols(recs))
    /\ \A i \in DOMAIN rows :
          LET x == rows[i]
              Buys(r) == r.buyer_id = x.broker_id /\ r.symbol = x.symbol
              Sells(r) == r.seller_id = x.broker_id /\ r.symbol = x.symbol
          IN  /\ x.buy_quantity =
                    Total([j \in DOMAIN recs |-> IF Buys(recs[j]) THEN recs[j].quantity ELSE 0])
              /\ x.buy_amount =
                    Total([j \in DOMAIN recs |-> IF Buys(recs[j]) THEN recs[j].amount ELSE 0])
              /\ x.sell_quantity =
                    Total([j \in DOMAIN recs |-> IF Sells(recs[j]) THEN recs[j].quantity ELSE 0])
              /\ x.sell_amount =
                    Total([j \in DOMAIN recs |-> IF Sells(recs[j]) THEN recs[j].amount ELSE 0])

\* the raw records the last Date Rollup run loaded
Loaded == Retained(rawTable, cut)

C11_FoldResult ==
    (op = "date" /\ summ # <<>>) =>
        /\ {summ[k].date : k \in DOMAIN summ} = DatesOf(Loaded)
        /\ \A k \in DOMAIN summ :
              IsFoldOf(summ[k].rows, RowsOn(Loaded, summ[k].date))

\* one date with a record traded inside a broker and a second record where
\* the same broker sells the same symbol again
C11_Witness ==
    /\ op = "date" /\ summ # <<>>
    /\ \E k \in DOMAIN summ :
          LET recs == RowsOn(Loaded, summ[k].date)
          IN  /\ Len(recs) = 2
              /\ \E i \in DOMAIN recs : recs[i].buyer_id = recs[i].seller_id
              /\ \E x \in Range(summ[k].rows) :
                    /\ x.buy_quantity > 0
                    /\ x.sell_quantity > x.buy_quantity

(***************************************************************************)
(* C12: Order independence of the Broker-Stock Folder.  For any            *)
(* permutation of one date's transaction records summarize_by_date yields  *)
(* the same set of summary rows, broker_name included, also when a         *)
(* broker_id occurs with more than one name.                               *)
(***************************************************************************)
C12_OrderIndependent ==
    Len(fout) = 2 =>
        /\ Len(fout[1].out) = 1 /\ Len(fout[2].out) = 1
        /\ Range(fout[1].out[1].rows) = Range(fout[2].out[1].rows)
        /\ Len(fout[1].out[1].rows) = Len(fout[2].out[1].rows)

\* three records in another order, where one broker buys a symbol under two
\* names, the later name first
C12_Witness ==
    /\ Len(fout) = 2
    /\ Len(fout[1].df) = 3
    /\ fout[2].df # fout[1].df
    /\ \E i, j \in DOMAIN fout[1].df :
          /\ i < j
          /\ fout[1].df[i].buyer_id = fout[1].df[j].buyer_id
          /\ fout[1].df[i].symbol = fout[1].df[j].symbol
          /\ StrLess(fout[1].df[j].buyer_name, fout[1].df[i].buyer_name)

(***************************************************************************)
(* C13: Global fold completeness.  After a Global Rollup run, for every    *)
(* (broker_id, symbol) the sum of buy_quantity over the global rows with   *)
(* that broker_id and symbol equals the sum of buy_quantity over all rows  *)
(* of the Date Rollup table with them, across all dates; likewise          *)
(* buy_amount, sell_quantity and sell_amount.                              *)
(***************************************************************************)
\* the four accumulators summed over the rows of tbl for broker b, symbol y
Sums(tbl, b, y) ==
    LET Hit(r) == r.broker_id = b /\ r.symbol = y
    IN  <<Total([i \in DOMAIN tbl |-> IF Hit(tbl[i]) THEN tbl[i].buy_quantity ELSE 0]),
          Total([i \in DOMAIN tbl |-> IF Hit(tbl[i]) THEN tbl[i].buy_amount ELSE 0]),
          Total([i \in DOMAIN tbl |-> IF Hit(tbl[i]) THEN tbl[i].sell_quantity ELSE 0]),
          Total([i \in DOMAIN tbl |-> IF Hit(tbl[i]) THEN tbl[i].sell_amount ELSE 0])>>

PairsOf(tbl) == {<<tbl[i].broker_id, tbl[i].symbol>> : i \in DOMAIN tbl}

C13_GlobalComplete ==
    (op = "global" /\ ok) =>
        \A p \in PairsOf(dateTable) \cup PairsOf(globalTable) :
            Sums(globalTable, p[1], p[2]) = Sums(dateTable, p[1], p[2])

\* a broker and symbol with rows on two dates under two names, so that the
\* global table holds two rows for the pair
C13_Witness ==
    /\ op = "global" /\ ok
    /\ \E i, j \in DOMAIN globalTable :
          /\ i # j
          /\ globalTable[i].broker_id = globalTable[j].broker_id
          /\ globalTable[i].symbol = globalTable[j].symbol
          /\ globalTable[i].buy_quantity > 0 /\ globalTable[j].sell_quantity > 0
          /\ globalTable[i].last_updated # globalTable[j].last_updated

(***************************************************************************)
(* C14: Global overwrite.  After any successful Global Rollup run the      *)
(* persisted global table is exactly the fold of the current Date Rollup   *)
(* table, whatever the global table held before; and a run right after a   *)
(* successful run, the Date Rollup table unchanged, leaves the global      *)
(* table as it was.                                                        *)
(***************************************************************************)
C14_GlobalOverwrite ==
    (op = "global" /\ ok) =>
        /\ globalStatus = "ok"
        /\ globalTable = aggregate_broker_stock_data(dateTable)
        /\ (prev.op = "global" /\ prev.ok) => globalTable = pre.global.table

\* the global table held rows that the fold of the Date Rollup table does not
\* produce, and the Date Rollup table has rows of two dates
C14_Witness ==
    /\ op = "global" /\ ok
    /\ pre.global.status = "ok"
    /\ \E x \in Range(pre.global.table) : x \notin Range(globalTable)
    /\ Cardinality(DatesOf(dateTable)) = 2

(***************************************************************************)
(* C15: Write failure keeps prior state.  In each of the three stages, if  *)
(* the write step fails partway through, the run reports failure and the   *)
(* previously persisted output table is still present with exactly its     *)
(* prior contents.                                                         *)
(***************************************************************************)
\* the output file of the stage that ran last, among the given files
OutputOf(files) ==
    IF op = "raw" THEN files.raw
    ELSE IF op = "date" THEN files.date
    ELSE files.global

WriteFailedPartway == \E i \in DOMAIN wr : wr[i] = "partial"

C15_WriteFailureKeepsPrior ==
    (op # "none" /\ WriteFailedPartway /\ OutputOf(pre).status = "ok") =>
        /\ ~ok
        /\ OutputOf(Files) = OutputOf(pre)

(***************************************************************************)
(* C16: Raw Store empty-after-retention is a no-op, not a failure.  When   *)
(* there is no raw table and every record of the non-empty batch is older  *)
(* than cutoff_date, save_to_parquet writes nothing and the run does not   *)
(* report failure.                                                         *)
(***************************************************************************)
AllOlder(tbl, c) == \A i \in DOMAIN tbl : ~NotOlder(tbl[i].date, c)

C16_EmptyAfterRetentionNoOp ==
    (op = "raw" /\ pre.raw.status = "absent" /\ batch # <<>> /\ AllOlder(batch, cut)) =>
        /\ RawFile = pre.raw
        /\ ok

(***************************************************************************)
(* C17: Raw Store re-run with nothing new.  When every record of the       *)
(* batch has a key already in the retained persisted raw table,            *)
(* save_to_parquet reports success and the table afterwards is the         *)
(* previous table without its rows older than cutoff_date; and a Raw Store *)
(* run that repeats the batch and the cutoff of the run before it leaves   *)
(* the raw table unchanged.                                                *)
(***************************************************************************)
NothingNew ==
    /\ op = "raw" /\ pre.raw.status = "ok" /\ batch # <<>>
    /\ NaturalKeys(batch) \subseteq NaturalKeys(Retained(pre.raw.table, cut))

C17_NothingNewState ==
    NothingNew =>
        /\ ok
        /\ rawStatus = "ok"
        /\ rawTable = Retained(pre.raw.table, cut)

C17_RerunStep ==
    (/\ op = "raw" /\ op' = "raw" /\ runs' = runs + 1
     /\ batch' = batch /\ cut' = cut)
    => (rawStatus' = rawStatus /\ rawTable' = rawTable)

C17_NothingNew == [](C17_NothingNewState) /\ [][C17_RerunStep]_vars

\* nothing new in the batch, rows older than the cutoff dropped, and the run
\* before it was a Raw Store run with the same cutoff
C17_Witness ==
    /\ NothingNew
    /\ Len(rawTable) < Len(pre.raw.table)
    /\ rawTable # <<>>
    /\ prev.op = "raw" /\ prev.cut = cut

(***************************************************************************)
(* C18: Driver failure on missing upstream input.  The Raw Store run       *)
(* reports failure when the fetched batch is empty; the Date Rollup run    *)
(* when the raw table is absent, unreadable or empty after retention       *)
(* filtering; the Global Rollup run when the Date Rollup table is absent,  *)
(* unreadable or empty.  In each case the stage's own output file is left  *)
(* as it was.                                                              *)
(***************************************************************************)
MissingInput ==
    \/ op = "raw" /\ batch = <<>>
    \/ op = "date" /\ (pre.raw.status # "ok" \/ Retained(pre.raw.table, cut) = <<>>)
    \/ op = "global" /\ (pre.date.status # "ok" \/ pre.date.table = <<>>)

C18_MissingInputFails ==
    MissingInput => (~ok /\ OutputOf(Files) = OutputOf(pre))

\* a Date Rollup run finds the raw file unreadable while a Date Rollup table
\* exists
C18_Witness ==
    /\ op = "date"
    /\ pre.raw.status = "corrupt"
    /\ pre.date.status = "ok" /\ pre.date.table # <<>>

(***************************************************************************)
(* C19: End-to-end example.  For the raw transactions of one date          *)
(* {tx 1: buyer B1, seller B2, symbol X, quantity 100, amount 10000} and   *)
(* {tx 2: buyer B2, seller B1, symbol X, quantity 40, amount 4200} the     *)
(* Date Rollup produces exactly two rows for X: B1 with buy 100/10000,     *)
(* sell 40/4200, net_quantity 60, avg_holding_price (10000 - 4200) / 60;   *)
(* and B2 with buy 40/4200, sell 100/10000, net_quantity -60,              *)
(* avg_holding_price 0.                                                    *)
(***************************************************************************)
\* the records the last Date Rollup run loaded are the two of the example
LoadedExample ==
    /\ op = "date"
    /\ Len(Loaded) = 2
    /\ \E d \in DatesOf(Loaded) :
          \E i, j \in DOMAIN Loaded :
              /\ Loaded[i].date = d /\ Loaded[i].transaction_no = 1
              /\ Loaded[i].symbol = "X"
              /\ Loaded[i].buyer_id = "B1" /\ Loaded[i].seller_id = "B2"
              /\ Loaded[i].quantity = 100 /\ Loaded[i].amount = 10000
              /\ Loaded[j].date = d /\ Loaded[j].transaction_no = 2
              /\ Loaded[j].symbol = "X"
              /\ Loaded[j].buyer_id = "B2" /\ Loaded[j].seller_id = "B1"
              /\ Loaded[j].quantity = 40 /\ Loaded[j].amount = 4200

\* the columns of a row the example names
Figures(x) ==
    <<x.broker_id, x.symbol, x.buy_quantity, x.buy_amount, x.sell_quantity,
      x.sell_amount, x.net_quantity, x.avg_holding_price>>

C19_Example ==
    LoadedExample =>
        /\ Len(summ) = 1
        /\ Len(summ[1].rows) = 2
        /\ {Figures(summ[1].rows[i]) : i \in 1..2} =
               {<<"B1", "X", 100, 10000, 40, 4200, 60, <<290, 3>>>>,
                <<"B2", "X", 40, 4200, 100, 10000, -60, <<0, 1>>>>}
        /\ IsQuotient(<<290, 3>>, 10000 - 4200, 60)

\* the run over the example succeeded and wrote the two rows
C19_Witness ==
    /\ LoadedExample /\ ok
    /\ Len(dateTable) = 2

(***************************************************************************)
(* C20: Per-date failure isolation in the Date Rollup.  If folding the     *)
(* records of one trading date fails, that date contributes no summary,    *)
(* while the summaries of every other date of the same run are still       *)
(* produced and, the write succeeding, persisted.                          *)
(***************************************************************************)
C20_PerDateIsolation ==
    (op = "date" /\ raised \cap DatesOf(Loaded) # {}) =>
        /\ \A d \in raised : d \notin SummDates
        /\ \A d \in DatesOf(Loaded) \ raised :
              /\ d \in SummDates
              /\ (wr = <<"ok">>) => d \in DatesOf(dateTable)

(***************************************************************************)
(* C21: Partial fetch is kept.  In download_floorsheet, if fetching page   *)
(* k > 1 fails, every transaction record extracted from the pages before k *)
(* is still in the batch, then and when the function returns.              *)
(***************************************************************************)
\* the records of the pages up to n whose request succeeded
FetchedUpTo(n) ==
    UNION {Range(fin.pages[i]) : i \in {j \in 1..n : fin.up[j]}}

C21_PartialFetchKept ==
    \A i, j \in DOMAIN fout :
        (fout[i].page > 1 /\ ~fout[i].fetched /\ j >= i) =>
            FetchedUpTo(fout[i].page - 1) \subseteq Range(fout[j].all_data)

\* the function returned after a failed page that had a record before it and
\* a fetched page after it
C21_Witness ==
    /\ fout # <<>> /\ fout[Len(fout)].returned
    /\ \E i \in DOMAIN fout :
          /\ fout[i].page > 1 /\ ~fout[i].fetched
          /\ FetchedUpTo(fout[i].page - 1) # {}
          /\ i < Len(fout) /\ fout[Len(fout)].fetched

(***************************************************************************)
(* C22: Fetch aborts after a page failure.  Once a page request fails in   *)
(* download_floorsheet no further page is requested, and the returned      *)
(* batch holds only records of pages fetched before the failure.           *)
(***************************************************************************)
C22_AbortAfterFailure ==
    \A i \in DOMAIN fout :
        ~fout[i].fetched =>
            /\ i = Len(fout)
            /\ Range(fout[i].all_data) \subseteq FetchedUpTo(fout[i].page - 1)

(***************************************************************************)
(* C23 as stated: when a broker_id occurs with different names among one   *)
(* date's records for one symbol, the summary row for (broker_id, symbol)  *)
(* carries the name of the first record, in input order, in which that     *)
(* broker takes part.                                                      *)
(***************************************************************************)
\* the broker takes part in the record as buyer or seller of the symbol
TakesPart(r, b, y) == r.symbol = y /\ (r.buyer_id = b \/ r.seller_id = b)

\* the names the record shows for the broker
NamesIn(r, b) ==
    (IF r.buyer_id = b THEN {r.buyer_name} ELSE {})
        \cup (IF r.seller_id = b THEN {r.seller_name} ELSE {})

FirstSeenNames(df, b, y) ==
    LET i == CHOOSE k \in DOMAIN df :
                 /\ TakesPart(df[k], b, y)
                 /\ \A j \in 1..(k - 1) : ~TakesPart(df[j], b, y)
    IN  NamesIn(df[i], b)

C23_FirstSeenName ==
    \A e \in DOMAIN fout :
        \A x \in Range(fout[e].out[1].rows) :
            x.broker_name \in FirstSeenNames(fout[e].df, x.broker_id, x.symbol)

(***************************************************************************)
(* C23 as amended: the summary row for (broker_id, symbol) carries the     *)
(* smallest, in string order, of the names under which the broker buys     *)
(* the symbol on that date; if it buys none, the smallest of the names     *)
(* under which it sells it.  The order of the records plays no part.       *)
(***************************************************************************)
BuyerNames(df, b, y) ==
    {df[i].buyer_name : i \in {k \in DOMAIN df : df[k].buyer_id = b /\ df[k].symbol = y}}

SellerNames(df, b, y) ==
    {df[i].seller_name : i \in {k \in DOMAIN df : df[k].seller_id = b /\ df[k].symbol = y}}

Smallest(names) == CHOOSE n \in names : \A m \in names \ {n} : StrLess(n, m)

C23_SmallestBuyerName ==
    \A e \in DOMAIN fout :
        \A x \in Range(fout[e].out[1].rows) :
            x.broker_name =
                IF BuyerNames(fout[e].df, x.broker_id, x.symbol) # {}
                THEN Smallest(BuyerNames(fout[e].df, x.broker_id, x.symbol))
                ELSE Smallest(SellerNames(fout[e].df, x.broker_id, x.symbol))

\* a broker known under two names buys the symbol, and its row carries a
\* name that the first record it takes part in does not show
C23_Witness ==
    \E e \in DOMAIN fout :
        \E x \in Range(fout[e].out[1].rows) :
            /\ Cardinality(BuyerNames(fout[e].df, x.broker_id, x.symbol)
                           \cup SellerNames(fout[e].df, x.broker_id, x.symbol)) = 2
            /\ x.broker_name \notin FirstSeenNames(fout[e].df, x.broker_id, x.symbol)
            /\ BuyerNames(fout[e].df, x.broker_id, x.symbol) # {}

(***************************************************************************)
(* C24: Global last_updated.  For every row of the Global Rollup,          *)
(* last_updated is the maximum date among the Date Rollup rows folded into *)
(* that row, in whatever order the rows are processed.                     *)
(***************************************************************************)
\* the positions of the Date Rollup rows folded into global row g
FoldedInto(g) ==
    {i \in DOMAIN dateTable :
        /\ dateTable[i].broker_id = g.broker_id
        /\ dateTable[i].broker_name = g.broker_name
        /\ dateTable[i].symbol = g.symbol}

C24_LastUpdatedMax ==
    (op = "global" /\ ok) =>
        \A g \in Range(globalTable) :
            /\ \E i \in FoldedInto(g) : dateTable[i].date = g.last_updated
            /\ \A i \in FoldedInto(g) : NotOlder(g.last_updated, dateTable[i].date)

\* a global row folded from rows of two dates, the later date first
C24_Witness ==
    /\ op = "global" /\ ok
    /\ \E g \in Range(globalTable) :
          \E i, j \in FoldedInto(g) :
              i < j /\ DayNumber(dateTable[i].date) > DayNumber(dateTable[j].date)

(***************************************************************************)
(* C25: Global uniqueness.  The Global Rollup holds exactly one row per    *)
(* (broker_id, broker_name, symbol) triple of the Date Rollup; a broker    *)
(* that appears under two names for one symbol gets two rows, each holding *)
(* the totals of the Date Rollup rows that carry its name.                 *)
(***************************************************************************)
Triple(r) == <<r.broker_id, r.broker_name, r.symbol>>

TriplesOf(tbl) == {Triple(tbl[i]) : i \in DOMAIN tbl}

\* the four accumulators summed over the rows of tbl that carry triple t
TripleSums(tbl, t) ==
    LET Hit(r) == Triple(r) = t
    IN  <<Total([i \in DOMAIN tbl |-> IF Hit(tbl[i]) THEN tbl[i].buy_quantity ELSE 0]),
          Total([i \in DOMAIN tbl |-> IF Hit(tbl[i]) THEN tbl[i].buy_amount ELSE 0]),
          Total([i \in DOMAIN tbl |-> IF Hit(tbl[i]) THEN tbl[i].sell_quantity ELSE 0]),
          Total([i \in DOMAIN tbl |-> IF Hit(tbl[i]) THEN tbl[i].sell_amount ELSE 0])>>

C25_OneRowPerTriple ==
    (op = "global" /\ ok) =>
        /\ TriplesOf(globalTable) = TriplesOf(dateTable)
        /\ Len(globalTable) = Cardinality(TriplesOf(dateTable))
        /\ \A t \in TriplesOf(dateTable) :
              TripleSums(globalTable, t) = TripleSums(dateTable, t)

\* one broker and symbol under two names: two global rows with their own
\* non-zero totals
C25_Witness ==
    /\ op = "global" /\ ok
    /\ \E i, j \in DOMAIN globalTable :
          /\ globalTable[i].broker_id = globalTable[j].broker_id
          /\ globalTable[i].symbol = globalTable[j].symbol
          /\ globalTable[i].broker_name # globalTable[j].broker_name
          /\ globalTable[i].buy_amount + globalTable[i].sell_amount > 0
          /\ globalTable[j].buy_amount + globalTable[j].sell_amount > 0
          /\ globalTable[i].buy_amount # globalTable[j].buy_amount

(***************************************************************************)
(* C26: Stages write only their own table.  A Raw Store run leaves the     *)
(* Date Rollup and Global Rollup files as they were, a Date Rollup run     *)
(* leaves the Raw Store and Global Rollup files as they were, and a Global *)
(* Rollup run leaves the Raw Store and Date Rollup files as they were,     *)
(* whether the run succeeds or fails.                                      *)
(***************************************************************************)
C26_OwnTableOnly ==
    /\ op = "raw" => DateFile = pre.date /\ GlobalFile = pre.global
    /\ op = "date" => RawFile = pre.raw /\ GlobalFile = pre.global
    /\ op = "global" => RawFile = pre.raw /\ DateFile = pre.date

\* a Global Rollup run that rewrote its file while the other two held rows,
\* after a Date Rollup run that rewrote its own
C26_Witness ==
    /\ op = "global" /\ ok /\ GlobalFile # pre.global
    /\ prev.op = "date" /\ prev.ok
    /\ rawTable # <<>> /\ dateTable # <<>>

(***************************************************************************)
(* C27: Date Rollup key uniqueness.  After any sequence of Raw Store and   *)
(* Date Rollup runs that starts with empty tables, the persisted Date      *)
(* Rollup table holds at most one row per (date, broker_id, symbol).       *)
(***************************************************************************)
DateKeys(tbl) == {<<tbl[i].date, tbl[i].broker_id, tbl[i].symbol>> : i \in DOMAIN tbl}

C27_DateKeyUnique == Cardinality(DateKeys(dateTable)) = Len(dateTable)

(***************************************************************************)
(* C28: No double counting end to end.  After any sequence of complete     *)
(* pipeline passes (Raw Store run, then Date Rollup run, then Global       *)
(* Rollup run) with a fixed cutoff, for every broker and symbol the total  *)
(* buy_quantity over the Global Rollup rows equals the sum of quantity     *)
(* over the Raw Store transactions in which the broker buys the symbol,    *)
(* and likewise for the sell side; and a pass that fetches no new          *)
(* transaction leaves these totals as they were.                           *)
(***************************************************************************)
PassDone == op = "global" /\ ok /\ prev.op = "date" /\ prev.ok

\* the quantity broker b bought and sold of symbol y over the raw records
RawTotals(recs, b, y) ==
    <<Total([i \in DOMAIN recs |->
                IF recs[i].buyer_id = b /\ recs[i].symbol = y THEN recs[i].quantity ELSE 0]),
      Total([i \in DOMAIN recs |->
                IF recs[i].seller_id = b /\ recs[i].symbol = y THEN recs[i].quantity ELSE 0])>>

GlobalTotals(tbl, b, y) == <<Sums(tbl, b, y)[1], Sums(tbl, b, y)[3]>>

C28_TotalsMatchRaw ==
    PassDone =>
        \A p \in BrokerSymbols(rawTable) \cup PairsOf(globalTable) :
            GlobalTotals(globalTable, p[1], p[2]) = RawTotals(rawTable, p[1], p[2])

C28_RepeatKeepsTotals ==
    (PassDone /\ runs > 0 /\ NaturalKeys(batch) \subseteq NaturalKeys(fin.table)) =>
        \A p \in PairsOf(pre.global.table) \cup PairsOf(globalTable) :
            GlobalTotals(globalTable, p[1], p[2]) = GlobalTotals(pre.global.table, p[1], p[2])

\* C28: after complete passes the global totals equal the raw sums, and a
\* pass that fetches nothing new leaves them as they were
C28_NoDoubleCounting == C28_TotalsMatchRaw /\ C28_RepeatKeepsTotals

(***************************************************************************)
(* C29: Conservation in the per-date summary.  For every trading date and  *)
(* symbol, the sum of buy_quantity over the date's summary rows equals the *)
(* sum of sell_quantity over them and the sum of quantity over the date's  *)
(* transactions in the symbol; buy_amount, sell_amount and amount          *)
(* likewise; so the net_quantity values of a date and symbol sum to zero.  *)
(***************************************************************************)
InSymbol(tbl, y) == SelectSeq(tbl, LAMBDA r : r.symbol = y)

Conserved(rows, recs) ==
    /\ Total([i \in DOMAIN rows |-> rows[i].buy_quantity])
           = Total([j \in DOMAIN recs |-> recs[j].quantity])
    /\ Total([i \in DOMAIN rows |-> rows[i].sell_quantity])
           = Total([j \in DOMAIN recs |-> recs[j].quantity])
    /\ Total([i \in DOMAIN rows |-> rows[i].buy_amount])
           = Total([j \in DOMAIN recs |-> recs[j].amount])
    /\ Total([i \in DOMAIN rows |-> rows[i].sell_amount])
           = Total([j \in DOMAIN recs |-> recs[j].amount])
    /\ Total([i \in DOMAIN rows |-> rows[i].net_quantity]) = 0

C29_Conservation ==
    (op = "date" /\ summ # <<>>) =>
        \A k \in DOMAIN summ :
            \A y \in {r.symbol : r \in Range(Loaded) \cup Range(summ[k].rows)} :
                Conserved(InSymbol(summ[k].rows, y),
                          InSymbol(RowsOn(Loaded, summ[k].date), y))

\* a date with two transactions in one symbol by the same seller, which
\* leave the two brokers with non-zero net quantities
C29_Witness ==
    /\ op = "date" /\ summ # <<>>
    /\ \E k \in DOMAIN summ :
          LET recs == RowsOn(Loaded, summ[k].date)
          IN  /\ Len(recs) = 2
              /\ recs[1].symbol = recs[2].symbol
              /\ recs[1].seller_id = recs[2].seller_id
              /\ recs[1].seller_name = recs[2].seller_name
              /\ recs[1].quantity > 0 /\ recs[2].quantity > 0
              /\ \E i \in DOMAIN summ[k].rows : summ[k].rows[i].net_quantity > 0

(***************************************************************************)
(* C30: No loss of retained raw rows.  In any Raw Store run against a      *)
(* readable raw table, a row persisted before the run whose date is not    *)
(* older than the run's cutoff_date is still in the table after the run,   *)
(* its fields unchanged, whether the run adds new records, finds only      *)
(* duplicates, or only prunes old rows.                                    *)
(***************************************************************************)
C30_RetainedRowsKept ==
    (op = "raw" /\ pre.raw.status = "ok") =>
        /\ rawStatus = "ok"
        /\ \A r \in Range(Retained(pre.raw.table, cut)) : r \in Range(rawTable)

\* a run that fetches only duplicates and prunes an old row, a row dated on
\* the cutoff staying
C30_Witness ==
    /\ NothingNew /\ ok
    /\ Len(rawTable) < Len(pre.raw.table)
    /\ \E r \in Range(pre.raw.table) : r.date = cut /\ r \in Range(rawTable)

====
